---- MODULE Spec2Model ----
(***************************************************************************)
(* Model of src/utils.py (KhaledSharif/hf-robot):                          *)
(*   - calculate_online_sample_weight  (sampling weight, pure function)    *)
(*   - add_episodes_inplace            (online dataset merger)             *)
(*   - the episode boundary resolver of eval_policy (argmax + mask)        *)
(*                                                                         *)
(* Python indices are zero-based; TLA+ sequences are one-based.  A Python  *)
(* sequence s is modelled by the TLA+ sequence with s[k] at position k+1.  *)
(* Floats are modelled by exact rationals <<numerator, denominator>>, so   *)
(* rounding is abstracted; a float division by zero raises                 *)
(* ZeroDivisionError in Python whatever the numerator is.                  *)
(***************************************************************************)
EXTENDS Integers, Sequences, FiniteSets, TLC

\* ---------------------------------------------------------------- bounds
\* largest number of frames (over all its episodes) of one incoming batch
MaxFrames == 3
\* number of add_episodes_inplace calls explored
MaxCalls == 2
\* length of the offline dataset when there is one (merger)
MaxOffline == 2
\* largest denominator of the target fractions pc_on explored
PcDen == 2
\* largest n_off / n_on given to calculate_online_sample_weight directly
MaxN == 4
\* largest batch width / number of rollout steps of a done tensor
MaxBatch == 2
MaxSteps == 3
\* eval_policy: episodes asked for, videos asked for, first seed, rollout length
MaxEpisodes == 3
MaxRendered == 2
MaxSeed == 1
MaxEvalSteps == 2
\* the metrics of one batch element: steps in the rollout, largest |reward|
MaxMetricSteps == 3
MaxReward == 1
\* largest done index / start index given to _compile_episode_data directly
MaxDoneIndex == 4
MaxStart == 2

VARIABLES
    \* --- add_episodes_inplace: the three caller-owned structures
    online_hf,            \* online_dataset.hf_dataset: rows [episode_index, index]
    online_edi,           \* online_dataset.episode_data_index: [from, to]
    offline_len,          \* len(concat_dataset.datasets[0]), the fixed offline dataset
    cumulative_sizes,     \* concat_dataset.cumulative_sizes
    sampler_weights,      \* sampler.weights
    sampler_num_samples,  \* sampler.num_samples
    \* --- add_episodes_inplace: the arguments of the last call and its outcome
    hf_dataset,           \* argument hf_dataset of the last call
    edi_arg,              \* argument episode_data_index as passed
    episode_data_index,   \* the caller's episode_data_index object after the call
    pc_online_samples,    \* argument pc_online_samples
    err,                  \* "none" before any call, "ok", or the exception raised
    n_calls,              \* calls made so far
    n_ok,                 \* calls that returned normally so far
    episodes_merged,      \* episodes appended to the online dataset so far
    \* --- calculate_online_sample_weight called on its own
    w_n_off, w_n_on, w_pc_on, w_result,
    \* --- episode boundary resolver
    done, done_indices, mask, resolved,
    \* --- rollout
    r_num_envs,            \* env.num_envs
    r_return_observations, \* argument return_observations
    r_render,              \* whether a render_callback was given
    r_pc,                  \* "start", "loop" (at the while test) or "returned"
    r_done,                \* the running done array
    r_step,                \* step
    all_observations, all_actions, all_rewards, all_successes, all_dones,
    env_reports,           \* per step, per env: terminated | truncated as reported
    render_calls,          \* number of render_callback(env) calls made
    ret,                   \* the returned dictionary
    \* --- _compile_episode_data called on its own
    c_done_indices, c_start_episode_index, c_start_data_index, c_out,
    \* --- eval_policy
    n_episodes, num_envs,         \* arguments: episodes asked for, env.num_envs
    max_episodes_rendered,        \* argument
    return_episode_data,          \* argument
    start_seed,                   \* argument: [is_none, value]
    e_pc,                         \* "running", "returned" or "raised"
    e_err,                        \* the exception that left eval_policy, or "none"
    batch_ix,                     \* batches finished so far
    sum_rewards, max_rewards,     \* metric lists
    e_all_successes, all_seeds,   \* metric lists
    episode_data,                 \* [is_none] or [is_none, hf, edi]
    threads,                      \* video threads in start order: "running"/"done"
    thread_args,                  \* each thread's video_path and frames, and its done_index
    files,                        \* the video paths written so far
    n_episodes_rendered,
    video_paths,
    join_ix,                      \* threads joined so far
    info,                         \* the returned dictionary
    e_batches,                    \* what each batch passed to rollout and the compiler
    \* --- the metrics of one batch element (lines 329-343)
    m_done, m_reward, m_success,  \* the element's rows of rollout_data
    m_out                         \* the element's done index, mask and metrics

mergeVars == <<online_hf, online_edi, offline_len, cumulative_sizes, sampler_weights,
               sampler_num_samples, hf_dataset, edi_arg, episode_data_index,
               pc_online_samples, err, n_calls, n_ok, episodes_merged>>
weightVars == <<w_n_off, w_n_on, w_pc_on, w_result>>
resolverVars == <<done, done_indices, mask, resolved>>
rolloutVars == <<r_num_envs, r_return_observations, r_render, r_pc, r_done, r_step,
                 all_observations, all_actions, all_rewards, all_successes, all_dones,
                 env_reports, render_calls, ret>>
compileVars == <<c_done_indices, c_start_episode_index, c_start_data_index, c_out>>
evalVars == <<n_episodes, num_envs, max_episodes_rendered, return_episode_data,
              start_seed, e_pc, e_err, batch_ix, sum_rewards, max_rewards,
              e_all_successes, all_seeds, episode_data, threads, thread_args, files,
              n_episodes_rendered, video_paths, join_ix, info, e_batches>>
metricVars == <<m_done, m_reward, m_success, m_out>>
vars == <<mergeVars, weightVars, resolverVars, rolloutVars, compileVars, evalVars,
          metricVars>>

\* ------------------------------------------------------- float arithmetic
\* exact rationals <<n, d>>; d = 0 never occurs in a value (division raises)
Rat(n) == <<n, 1>>
RatNeg(a) == <<-a[1], a[2]>>
RatMul(a, b) == <<a[1] * b[1], a[2] * b[2]>>
RatAdd(a, b) == <<a[1] * b[2] + b[1] * a[2], a[2] * b[2]>>
RatSub(a, b) == <<a[1] * b[2] - b[1] * a[2], a[2] * b[2]>>
RatIsZero(a) == a[1] = 0
RatDiv(a, b) == <<a[1] * b[2], a[2] * b[1]>>
RatEq(a, b) == a[1] * b[2] = b[1] * a[2]
\* a <= b, for any signs of the denominators
RatLe(a, b) ==
    LET l == a[1] * b[2]
        r == b[1] * a[2]
    IN  IF a[2] * b[2] > 0 THEN l <= r ELSE l >= r

\* ------------------------------------------- calculate_online_sample_weight
\* a mutated weight: the leading minus sign of the solution is lost
calculate_online_sample_weight_nosign(n_off, n_on, pc_on) ==
    IF ~(RatLe(Rat(0), pc_on) /\ RatLe(pc_on, Rat(1)))
    THEN [error |-> "AssertionError"]
    ELSE LET num == RatMul(Rat(n_off), pc_on)
             den == RatMul(Rat(n_on), RatSub(pc_on, Rat(1)))
         IN  IF RatIsZero(den)
             THEN [error |-> "ZeroDivisionError"]
             ELSE [error |-> "ok", value |-> RatDiv(num, den)]

\* a mutated weight: 0/0 is let through as a value instead of raising
calculate_online_sample_weight_nan(n_off, n_on, pc_on) ==
    IF ~(RatLe(Rat(0), pc_on) /\ RatLe(pc_on, Rat(1)))
    THEN [error |-> "AssertionError"]
    ELSE LET num == RatNeg(RatMul(Rat(n_off), pc_on))
             den == RatMul(Rat(n_on), RatSub(pc_on, Rat(1)))
         IN  IF RatIsZero(den) /\ ~RatIsZero(num)
             THEN [error |-> "ZeroDivisionError"]
             ELSE [error |-> "ok", value |-> IF RatIsZero(den) THEN Rat(0) ELSE RatDiv(num, den)]

\* assert 0.0 <= pc_on <= 1.0; return -(n_off * pc_on) / (n_on * (pc_on - 1))
calculate_online_sample_weight(n_off, n_on, pc_on) ==
    IF ~(RatLe(Rat(0), pc_on) /\ RatLe(pc_on, Rat(1)))
    THEN [error |-> "AssertionError"]
    ELSE LET num == RatNeg(RatMul(Rat(n_off), pc_on))
             den == RatMul(Rat(n_on), RatSub(pc_on, Rat(1)))
         IN  IF RatIsZero(den)
             THEN [error |-> "ZeroDivisionError"]
             ELSE [error |-> "ok", value |-> RatDiv(num, den)]

\* ------------------------------------------------------ add_episodes_inplace
\* lines 59-66: hf_dataset.select_columns(c)[0][c] and [-1][c]
first_episode_idx(hf) == hf[1].episode_index
last_episode_idx(hf) == hf[Len(hf)].episode_index
first_index(hf) == hf[1].index
last_index(hf) == hf[Len(hf)].index

\* a mutated pre-check: the last assertion (line 71) is missing
sanity_check_no_to(hf, edi) ==
    IF Len(hf) = 0 THEN "IndexError"
    ELSE IF first_episode_idx(hf) # 0 THEN "AssertionError"
    ELSE IF first_index(hf) # 0 THEN "AssertionError"
    ELSE IF first_episode_idx(hf) + 1 > Len(edi.from) THEN "IndexError"
    ELSE IF first_index(hf) # edi.from[first_episode_idx(hf) + 1] THEN "AssertionError"
    ELSE "ok"

\* a mutated pre-check: the reads and assertions are made only where the offsets
\* are needed, in the branch that appends to a non-empty online dataset
sanity_check_in_else(hf, edi) ==
    IF Len(online_hf) = 0 THEN "ok"
    ELSE IF Len(hf) = 0 THEN "IndexError"
    ELSE IF first_episode_idx(hf) # 0 THEN "AssertionError"
    ELSE IF first_index(hf) # 0 THEN "AssertionError"
    ELSE IF first_episode_idx(hf) + 1 > Len(edi.from) THEN "IndexError"
    ELSE IF first_index(hf) # edi.from[first_episode_idx(hf) + 1] THEN "AssertionError"
    ELSE IF last_episode_idx(hf) + 1 > Len(edi.to) THEN "IndexError"
    ELSE IF last_index(hf) # edi.to[last_episode_idx(hf) + 1] - 1 THEN "AssertionError"
    ELSE "ok"

\* lines 59-71: reading row 0 / row -1 of an empty dataset raises IndexError, as
\* does indexing a tensor past its end; then the four assertions, in order
sanity_check(hf, edi) ==
    IF Len(hf) = 0 THEN "IndexError"
    ELSE IF first_episode_idx(hf) # 0 THEN "AssertionError"
    ELSE IF first_index(hf) # 0 THEN "AssertionError"
    ELSE IF first_episode_idx(hf) + 1 > Len(edi.from) THEN "IndexError"
    ELSE IF first_index(hf) # edi.from[first_episode_idx(hf) + 1] THEN "AssertionError"
    ELSE IF last_episode_idx(hf) + 1 > Len(edi.to) THEN "IndexError"
    ELSE IF last_index(hf) # edi.to[last_episode_idx(hf) + 1] - 1 THEN "AssertionError"
    ELSE "ok"

\* lines 79-80: the offsets, taken from the incoming batch's own last row
start_episode_idx(hf) == last_episode_idx(hf) + 1
start_index(hf) == last_index(hf) + 1

\* lines 82-94: hf_dataset.map(shift_indices)
shift_indices(hf, d_episode, d_index) ==
    [k \in 1..Len(hf) |-> [episode_index |-> hf[k].episode_index + d_episode,
                           index |-> hf[k].index + d_index]]

\* lines 97-98: episode_data_index["from"] += start_index, ["to"] += start_index
shift_table(edi, d_index) ==
    [from |-> [k \in 1..Len(edi.from) |-> edi.from[k] + d_index],
     to |-> [k \in 1..Len(edi.to) |-> edi.to[k] + d_index]]

\* ConcatDataset.cumsum (line 106): running sums of the datasets' lengths
cumsum(lens) ==
    [k \in 1..Len(lens) |-> IF k = 1 THEN lens[1] ELSE lens[1] + lens[2]]

\* len(concat_dataset): the last cumulative size
concat_len(sizes) == sizes[Len(sizes)]

\* line 111
weight_offline == Rat(1)

\* a mutated weights array: one weight per online frame is missing
build_weights_short(len_offline, len_online, weight_online) ==
    [k \in 1..(len_offline + len_online - 1) |->
        IF k <= len_offline THEN weight_offline ELSE weight_online]

\* lines 115-117: [weight_offline] * len_offline + [weight_online] * len(online_dataset)
build_weights(len_offline, len_online, weight_online) ==
    [k \in 1..(len_offline + len_online) |->
        IF k <= len_offline THEN weight_offline ELSE weight_online]

\* ---- the batches handed to add_episodes_inplace
RECURSIVE SumSeq(_)
SumSeq(s) == IF s = <<>> THEN 0 ELSE s[1] + SumSeq(Tail(s))

\* frames before episode k (one-based) of a batch with these episode lengths
FramesBefore(lens, k) == SumSeq(SubSeq(lens, 1, k - 1))

\* episode (one-based) holding frame f (one-based)
EpisodeOfFrame(lens, f) ==
    CHOOSE k \in 1..Len(lens) : FramesBefore(lens, k) < f /\ f <= FramesBefore(lens, k + 1)

\* the rows of a batch whose episodes have lengths lens, numbered from e0 / i0
BatchRows(lens, e0, i0) ==
    [f \in 1..SumSeq(lens) |-> [episode_index |-> e0 + EpisodeOfFrame(lens, f) - 1,
                                 index |-> i0 + f - 1]]

\* its from/to table, numbered from f0 / t0
BatchTable(lens, f0, t0) ==
    [from |-> [k \in 1..Len(lens) |-> f0 + FramesBefore(lens, k)],
     to |-> [k \in 1..Len(lens) |-> t0 + FramesBefore(lens, k + 1)]]

\* the episode lengths of a batch: one or more episodes of one or more frames
EpisodeLengths ==
    {lens \in UNION {[1..n -> 1..MaxFrames] : n \in 1..MaxFrames} :
        SumSeq(lens) <= MaxFrames}

\* <<e0, i0, f0, t0>>: where a batch's episode_index, index, from and to start.
\* All zero is the zero-based batch; the others break the first, the second (with
\* a table that agrees with the rows), the third, the fourth, and the first three
\* of the pre-conditions of lines 68-71
Offsets ==
    {<<0, 0, 0, 0>>, <<1, 0, 0, 0>>, <<0, 1, 1, 1>>, <<0, 0, 1, 0>>, <<0, 0, 0, 1>>,
     <<1, 1, 0, 0>>}

\* contiguous batches, zero-based or not
Batches ==
    {[hf |-> BatchRows(lens, o[1], o[2]), edi |-> BatchTable(lens, o[3], o[4])] :
        lens \in EpisodeLengths, o \in Offsets}
\* an empty batch, with an empty table or with the table of a zero-frame episode
EmptyBatches ==
    {[hf |-> <<>>, edi |-> [from |-> <<>>, to |-> <<>>]],
     [hf |-> <<>>, edi |-> [from |-> <<0>>, to |-> <<0>>]]}
\* a zero-based one-episode batch handed over with an empty table
NoTableBatches ==
    {[hf |-> BatchRows(<<n>>, 0, 0), edi |-> [from |-> <<>>, to |-> <<>>]] :
        n \in 1..MaxFrames}
AllBatches == Batches \cup EmptyBatches \cup NoTableBatches

\* the target fractions explored by the merger: 0, 1/PcDen and 1
MergePcValues == {<<0, PcDen>>, <<1, PcDen>>, <<PcDen, PcDen>>}

\* number of distinct episodes of a batch
NumEpisodes(hf) == Cardinality({hf[k].episode_index : k \in 1..Len(hf)})

\* state before the first merge: empty online dataset, sampler over the offline data
MergeInit ==
    /\ online_hf = <<>>
    /\ online_edi = [from |-> <<>>, to |-> <<>>]
    /\ offline_len \in {0, MaxOffline}
    /\ cumulative_sizes = cumsum(<<offline_len, 0>>)
    /\ sampler_weights = build_weights(offline_len, 0, weight_offline)
    /\ sampler_num_samples = offline_len
    /\ hf_dataset = <<>>
    /\ edi_arg = [from |-> <<>>, to |-> <<>>]
    /\ episode_data_index = [from |-> <<>>, to |-> <<>>]
    /\ pc_online_samples = <<0, PcDen>>
    /\ err = "none"
    /\ n_calls = 0
    /\ n_ok = 0
    /\ episodes_merged = 0

\* the call's arguments, common to every outcome
CallArgs(b, pc) ==
    /\ n_calls < MaxCalls
    /\ n_calls' = n_calls + 1
    /\ hf_dataset' = b.hf
    /\ edi_arg' = b.edi
    /\ pc_online_samples' = pc
    /\ UNCHANGED offline_len

\* lines 73-103: adopt the batch, or shift it and append it
AppendBatch(b) ==
    IF Len(online_hf) = 0
    THEN /\ online_hf' = b.hf
         /\ online_edi' = b.edi
         /\ episode_data_index' = b.edi
    ELSE /\ online_hf' = online_hf \o
                shift_indices(b.hf, start_episode_idx(b.hf), start_index(b.hf))
         /\ episode_data_index' = shift_table(b.edi, start_index(b.hf))
         /\ UNCHANGED online_edi

\* add_episodes_inplace raises in lines 59-71, before anything is written and
\* before pc_online_samples is read (one value of it is enough)
MergeRejected ==
    \E b \in AllBatches, pc \in {<<1, PcDen>>} :
        /\ CallArgs(b, pc)
        /\ sanity_check(b.hf, b.edi) # "ok"
        /\ err' = sanity_check(b.hf, b.edi)
        /\ episode_data_index' = b.edi
        /\ UNCHANGED <<online_hf, online_edi, cumulative_sizes, sampler_weights,
                       sampler_num_samples, n_ok, episodes_merged>>

\* add_episodes_inplace appends (lines 73-106), then the weight computation of
\* line 112 raises: the sampler is left as it was
MergeWeightFails ==
    \E b \in AllBatches, pc \in MergePcValues :
        /\ CallArgs(b, pc)
        /\ sanity_check(b.hf, b.edi) = "ok"
        /\ AppendBatch(b)
        /\ cumulative_sizes' = cumsum(<<offline_len, Len(online_hf')>>)
        /\ LET len_online == Len(online_hf')
               len_offline == concat_len(cumulative_sizes') - len_online
               w == calculate_online_sample_weight(len_offline, len_online, pc)
           IN  /\ w.error # "ok"
               /\ err' = w.error
        /\ episodes_merged' = episodes_merged + NumEpisodes(b.hf)
        /\ UNCHANGED <<sampler_weights, sampler_num_samples, n_ok>>

\* add_episodes_inplace returns normally (lines 59-120)
MergeOk ==
    \E b \in AllBatches, pc \in MergePcValues :
        /\ CallArgs(b, pc)
        /\ sanity_check(b.hf, b.edi) = "ok"
        /\ AppendBatch(b)
        /\ cumulative_sizes' = cumsum(<<offline_len, Len(online_hf')>>)
        /\ LET len_online == Len(online_hf')
               len_offline == concat_len(cumulative_sizes') - len_online
               w == calculate_online_sample_weight(len_offline, len_online, pc)
           IN  /\ w.error = "ok"
               /\ sampler_weights' = build_weights(len_offline, Len(online_hf'), w.value)
        /\ sampler_num_samples' = concat_len(cumulative_sizes')
        /\ err' = "ok"
        /\ n_ok' = n_ok + 1
        /\ episodes_merged' = episodes_merged + NumEpisodes(b.hf)

\* ---------------------------------- calculate_online_sample_weight on its own
\* the spec's worked example (n_offline, n_online) = (100, 50) is added to the grid
WeightCounts == ((0..MaxN) \X (0..MaxN)) \cup {<<100, 50>>}
\* fractions p/q with q up to PcDen, from just below 0 to just above 1
WeightPcValues == {<<p, q>> : p \in -1..(PcDen + 1), q \in 1..PcDen}

WeightIdle ==
    /\ w_n_off = 0
    /\ w_n_on = 0
    /\ w_pc_on = <<0, 1>>
    /\ w_result = [error |-> "none"]

WeightInit ==
    /\ \E c \in WeightCounts : w_n_off = c[1] /\ w_n_on = c[2]
    /\ w_pc_on \in WeightPcValues
    /\ w_result = [error |-> "none"]

\* one call of calculate_online_sample_weight (lines 710-727)
CalcWeight ==
    /\ w_result.error = "none"
    /\ w_result' = calculate_online_sample_weight(w_n_off, w_n_on, w_pc_on)
    /\ UNCHANGED <<w_n_off, w_n_on, w_pc_on>>

\* ------------------------------------------------ episode boundary resolver
\* rollout_data["done"].to(int)
to_int(flag) == IF flag THEN 1 ELSE 0

\* torch.argmax over one row: the (zero-based) position of the first maximal value
argmax(row) ==
    LET top == CHOOSE v \in {row[k] : k \in 1..Len(row)} :
                   \A k \in 1..Len(row) : row[k] <= v
    IN  (CHOOSE k \in 1..Len(row) : row[k] = top /\ \A j \in 1..(k - 1) : row[j] # top) - 1

\* line 333: done_indices = torch.argmax(rollout_data["done"].to(int), axis=1), one row
done_index(row) == argmax([k \in 1..Len(row) |-> to_int(row[k])])

\* a mutated mask: the "+ 1" that keeps one more step is dropped to a strict test
mask_row_strict(di, n_steps) ==
    [s \in 1..n_steps |-> to_int((s - 1) < di + 1)]

\* line 336: (torch.arange(n_steps) <= repeat(done_indices + 1)).int(), one row
mask_row(di, n_steps) ==
    [s \in 1..n_steps |-> to_int((s - 1) <= di + 1)]

\* the done tensors handed to the resolver: every (batch, n_steps) boolean tensor
DoneTensors ==
    UNION {[1..b -> [1..n -> BOOLEAN]] : b \in 1..MaxBatch, n \in 1..MaxSteps}

ResolverIdle ==
    /\ done = <<>>
    /\ done_indices = <<>>
    /\ mask = <<>>
    /\ resolved = FALSE

ResolverInit ==
    /\ done \in DoneTensors
    /\ done_indices = <<>>
    /\ mask = <<>>
    /\ resolved = FALSE

\* lines 331-336 of eval_policy
Resolve ==
    /\ ~resolved
    /\ LET n_steps == Len(done[1])
           indices == [i \in 1..Len(done) |-> done_index(done[i])]
       IN  /\ done_indices' = indices
           /\ mask' = [i \in 1..Len(done) |-> mask_row(indices[i], n_steps)]
    /\ resolved' = TRUE
    /\ UNCHANGED done

\* --------------------------------------------------------------------- rollout
\* a mutated loop test: one done environment ends the loop
np_any(flags) == \E i \in 1..Len(flags) : flags[i]

\* np.all(done)
np_all(flags) == \A i \in 1..Len(flags) : flags[i]

\* torch.stack(list, dim=1): per-step (batch) arrays to a (batch, step) tensor
stack(list, n) == [i \in 1..n |-> [s \in 1..Len(list) |-> list[s][i]]]

\* a mutated update: the running flags are overwritten instead of accumulated
update_done_overwrite(terminated, truncated, flags) ==
    [i \in 1..Len(flags) |-> terminated[i] \/ truncated[i]]

\* a mutated update: truncation is not folded into the running flags
update_done_no_truncated(terminated, truncated, flags) ==
    [i \in 1..Len(flags) |-> terminated[i] \/ flags[i]]

\* line 217: done = terminated | truncated | done
update_done(terminated, truncated, flags) ==
    [i \in 1..Len(flags) |-> terminated[i] \/ truncated[i] \/ flags[i]]

\* lines 211-214: is_success of the environments that finished in this step, False
\* for the others; the environments modelled succeed exactly when they terminate
step_successes(terminated, truncated) ==
    [i \in 1..Len(terminated) |-> (terminated[i] \/ truncated[i]) /\ terminated[i]]

RolloutIdle ==
    /\ r_num_envs = 0
    /\ r_return_observations = FALSE
    /\ r_render = FALSE
    /\ r_pc = "idle"
    /\ r_done = <<>>
    /\ r_step = 0
    /\ all_observations = <<>>
    /\ all_actions = <<>>
    /\ all_rewards = <<>>
    /\ all_successes = <<>>
    /\ all_dones = <<>>
    /\ env_reports = <<>>
    /\ render_calls = 0
    /\ ret = [returned |-> FALSE]

\* the call: a batch of one or more environments
RolloutInit ==
    /\ r_num_envs \in 1..MaxBatch
    /\ r_return_observations \in BOOLEAN
    /\ r_render \in BOOLEAN
    /\ r_pc = "start"
    /\ r_done = <<>>
    /\ r_step = 0
    /\ all_observations = <<>>
    /\ all_actions = <<>>
    /\ all_rewards = <<>>
    /\ all_successes = <<>>
    /\ all_dones = <<>>
    /\ env_reports = <<>>
    /\ render_calls = 0
    /\ ret = [returned |-> FALSE]

\* lines 164-188: reset, first render, empty lists, done = [False] * num_envs
RolloutReset ==
    /\ r_pc = "start"
    /\ r_pc' = "loop"
    /\ render_calls' = IF r_render THEN 1 ELSE 0
    /\ r_done' = [i \in 1..r_num_envs |-> FALSE]
    /\ r_step' = 0
    /\ all_observations' = <<>>
    /\ all_actions' = <<>>
    /\ all_rewards' = <<>>
    /\ all_successes' = <<>>
    /\ all_dones' = <<>>
    /\ UNCHANGED <<r_num_envs, r_return_observations, r_render, env_reports, ret>>

\* lines 189-229: one iteration of the while loop.  The environment's answer
\* (terminated, truncated) is any pair of boolean arrays; actions and rewards are
\* opaque entries, one per environment; an observation is represented by the
\* number of steps taken when the environment produced it (0: by reset)
RolloutStep ==
    /\ r_pc = "loop"
    /\ ~np_all(r_done)
    /\ r_step < MaxSteps
    /\ \E terminated \in [1..r_num_envs -> BOOLEAN], truncated \in [1..r_num_envs -> BOOLEAN] :
        /\ all_observations' = IF r_return_observations
                               THEN Append(all_observations, [i \in 1..r_num_envs |-> r_step])
                               ELSE all_observations
        /\ render_calls' = IF r_render THEN render_calls + 1 ELSE render_calls
        /\ r_done' = update_done(terminated, truncated, r_done)
        /\ all_actions' = Append(all_actions, [i \in 1..r_num_envs |-> "action"])
        /\ all_rewards' = Append(all_rewards, [i \in 1..r_num_envs |-> 1])
        /\ all_dones' = Append(all_dones, r_done')
        /\ all_successes' = Append(all_successes, step_successes(terminated, truncated))
        /\ env_reports' = Append(env_reports,
                                 [i \in 1..r_num_envs |-> terminated[i] \/ truncated[i]])
    /\ r_step' = r_step + 1
    /\ UNCHANGED <<r_num_envs, r_return_observations, r_render, r_pc, ret>>

\* a mutated return: the final observation is not appended
RolloutReturn_no_final_observation ==
    /\ r_pc = "loop"
    /\ np_all(r_done)
    /\ r_pc' = "returned"
    /\ ret' = [returned |-> TRUE,
               action |-> stack(all_actions, r_num_envs),
               reward |-> stack(all_rewards, r_num_envs),
               success |-> stack(all_successes, r_num_envs),
               done |-> stack(all_dones, r_num_envs),
               observation |-> IF r_return_observations
                               THEN stack(all_observations, r_num_envs)
                               ELSE <<>>]
    /\ UNCHANGED <<r_num_envs, r_return_observations, r_render, r_done, r_step,
                   all_observations, all_actions, all_rewards, all_successes, all_dones,
                   env_reports, render_calls>>

\* lines 231-249: the loop test fails; final observation, stacking, return
RolloutReturn ==
    /\ r_pc = "loop"
    /\ np_all(r_done)
    /\ r_pc' = "returned"
    /\ all_observations' = IF r_return_observations
                           THEN Append(all_observations, [i \in 1..r_num_envs |-> r_step])
                           ELSE all_observations
    /\ ret' = [returned |-> TRUE,
               action |-> stack(all_actions, r_num_envs),
               reward |-> stack(all_rewards, r_num_envs),
               success |-> stack(all_successes, r_num_envs),
               done |-> stack(all_dones, r_num_envs),
               observation |-> IF r_return_observations
                               THEN stack(all_observations', r_num_envs)
                               ELSE <<>>]
    /\ UNCHANGED <<r_num_envs, r_return_observations, r_render, r_done, r_step,
                   all_actions, all_rewards, all_successes, all_dones, env_reports,
                   render_calls>>

\* ------------------------------------------------------- _compile_episode_data
\* a mutated compiler: the "+ 1" that includes the first done frame is missing
compile_episode_data_no_done_frame(done_idx, start_episode_index, start_data_index) ==
    LET num_frames == [i \in 1..Len(done_idx) |-> done_idx[i]]
        total_frames == SumSeq(num_frames)
    IN  [hf |-> [f \in 1..total_frames |->
                    LET ep_ix == EpisodeOfFrame(num_frames, f)
                    IN  [episode_index |-> start_episode_index + ep_ix - 1,
                         frame_index |-> f - 1 - FramesBefore(num_frames, ep_ix),
                         index |-> start_data_index + f - 1]],
         edi |-> [from |-> [k \in 1..Len(done_idx) |->
                               start_data_index + FramesBefore(num_frames, k)],
                  to |-> [k \in 1..Len(done_idx) |->
                             start_data_index + FramesBefore(num_frames, k + 1)]]]

\* lines 465-521: episode ep_ix (zero-based) has num_frames = done_indices[ep_ix] + 1
\* rows with episode_index = start_episode_index + ep_ix and frame_index
\* 0..num_frames-1; index = arange(start_data_index, start_data_index + total_frames);
\* from/to are the running data_index_from and data_index_from + num_frames.
\* The columns sliced from the rollout tensors are not represented.
compile_episode_data(done_idx, start_episode_index, start_data_index) ==
    LET num_frames == [i \in 1..Len(done_idx) |-> done_idx[i] + 1]
        total_frames == SumSeq(num_frames)
    IN  [hf |-> [f \in 1..total_frames |->
                    LET ep_ix == EpisodeOfFrame(num_frames, f)
                    IN  [episode_index |-> start_episode_index + ep_ix - 1,
                         frame_index |-> f - 1 - FramesBefore(num_frames, ep_ix),
                         index |-> start_data_index + f - 1]],
         edi |-> [from |-> [k \in 1..Len(done_idx) |->
                               start_data_index + FramesBefore(num_frames, k)],
                  to |-> [k \in 1..Len(done_idx) |->
                             start_data_index + FramesBefore(num_frames, k + 1)]]]

CompileIdle ==
    /\ c_done_indices = <<>>
    /\ c_start_episode_index = 0
    /\ c_start_data_index = 0
    /\ c_out = [compiled |-> FALSE]

\* the call: one done index per batch element, any start indices
CompileInit ==
    /\ c_done_indices \in UNION {[1..b -> 0..MaxDoneIndex] : b \in 1..MaxBatch}
    /\ c_start_episode_index \in 0..MaxStart
    /\ c_start_data_index \in 0..MaxStart
    /\ c_out = [compiled |-> FALSE]

\* one call of _compile_episode_data (lines 456-548)
Compile ==
    /\ ~c_out.compiled
    /\ LET out == compile_episode_data(c_done_indices, c_start_episode_index,
                                       c_start_data_index)
       IN  c_out' = [compiled |-> TRUE, hf |-> out.hf, edi |-> out.edi]
    /\ UNCHANGED <<c_done_indices, c_start_episode_index, c_start_data_index>>

\* ------------------------------------------------------------------ eval_policy
\* Python's min and max of two integers
min(a, b) == IF a <= b THEN a ELSE b
max(a, b) == IF a >= b THEN a ELSE b

\* einops.reduce(..., "max") over one row
row_max(row) == CHOOSE v \in {row[k] : k \in 1..Len(row)} : \A k \in 1..Len(row) : row[k] <= v

\* lines 338, 340, 342, one row: einops.reduce(rollout_data[...] * mask, "sum" /
\* "max" / "any"); a step the mask leaves out enters the reduction as 0 / False
reduce_sum(row, msk) == SumSeq([s \in 1..Len(row) |-> row[s] * msk[s]])
reduce_max(row, msk) == row_max([s \in 1..Len(row) |-> row[s] * msk[s]])
reduce_any(row, msk) == \E s \in 1..Len(row) : to_int(row[s]) * msk[s] # 0

\* a mutated batch count: the extra batch for the remainder is missing
n_batches_floor(n, b) == n \div b

\* line 284: n_episodes // env.num_envs + int((n_episodes % env.num_envs) != 0)
n_batches(n, b) == (n \div b) + to_int((n % b) # 0)

\* line 319: range(start_seed + batch_ix * num_envs, start_seed + (batch_ix + 1) * num_envs)
batch_seeds(seed, ix, b) ==
    [i \in 1..((seed + (ix + 1) * b) - (seed + ix * b)) |-> seed + (ix * b) + i - 1]

\* a mutated start_episode_index: the batch number instead of the episode count
start_episode_index_batch(ix, b) == ix

\* line 350: start_episode_index = batch_ix * env.num_envs
start_episode_index(ix, b) == ix * b

\* lines 351-353: 0 if episode_data is None else episode_data_index["to"][-1]
start_data_index(data) == IF data.is_none THEN 0 ELSE data.edi.to[Len(data.edi.to)]

\* a mutated file name: every video goes to the same file
video_path_fixed(n) == <<"eval_episode_", 0, ".mp4">>

\* line 396: video_dir / f"eval_episode_{n_episodes_rendered}.mp4"
video_path(n) == <<"eval_episode_", n, ".mp4">>

\* lines 295-304, render_frame: the width of the frame captured by one call,
\* 0 when the call returns without capturing
render_frame(rendered, limit, b) ==
    IF rendered >= limit THEN 0 ELSE min(limit - rendered, b)

\* what rollout returns (lines 231-249) for elements that first become done at
\* the zero-based steps d: the loop leaves at the first step where all are done,
\* done is cumulative, every reward is 1 and no environment reports a success
rollout_outcome(d) ==
    LET n_steps == row_max(d) + 1
    IN  [done |-> [i \in 1..Len(d) |-> [s \in 1..n_steps |-> (s - 1) >= d[i]]],
         reward |-> [i \in 1..Len(d) |-> [s \in 1..n_steps |-> 1]],
         success |-> [i \in 1..Len(d) |-> [s \in 1..n_steps |-> FALSE]]]

\* lines 360-369: the three assertions between the accumulated and the new data
assertions_hold(data, this) ==
    /\ data.hf[Len(data.hf)].episode_index + 1 = this.hf[1].episode_index
    /\ data.hf[Len(data.hf)].index + 1 = this.hf[1].index
    /\ data.edi.to[Len(data.edi.to)] = this.edi.from[1]

\* a mutated concatenation: the from/to tables are not extended
concatenate_without_tables(data, this) ==
    [is_none |-> FALSE, hf |-> data.hf \o this.hf, edi |-> data.edi]

\* lines 371-385: concatenate the datasets and the from/to tables
concatenate(data, this) ==
    [is_none |-> FALSE,
     hf |-> data.hf \o this.hf,
     edi |-> [from |-> data.edi.from \o this.edi.from, to |-> data.edi.to \o this.edi.to]]

EvalIdle ==
    /\ n_episodes = 0 /\ num_envs = 0 /\ max_episodes_rendered = 0
    /\ return_episode_data = FALSE
    /\ start_seed = [is_none |-> TRUE, value |-> 0]
    /\ e_pc = "idle" /\ e_err = "none" /\ batch_ix = 0
    /\ sum_rewards = <<>> /\ max_rewards = <<>>
    /\ e_all_successes = <<>> /\ all_seeds = <<>>
    /\ episode_data = [is_none |-> TRUE]
    /\ threads = <<>> /\ thread_args = <<>> /\ files = {}
    /\ n_episodes_rendered = 0 /\ video_paths = <<>> /\ join_ix = 0
    /\ info = [returned |-> FALSE]
    /\ e_batches = <<>>

\* lines 252-311: the arguments (a video_dir is given whenever videos are asked
\* for) and the locals before the first batch
EvalInit ==
    /\ n_episodes \in 1..MaxEpisodes
    /\ num_envs \in 1..MaxBatch
    /\ max_episodes_rendered \in 0..MaxRendered
    /\ return_episode_data \in BOOLEAN
    /\ start_seed \in {[is_none |-> TRUE, value |-> 0]}
                        \cup {[is_none |-> FALSE, value |-> v] : v \in 0..MaxSeed}
    /\ e_pc = "running" /\ e_err = "none" /\ batch_ix = 0
    /\ sum_rewards = <<>> /\ max_rewards = <<>>
    /\ e_all_successes = <<>> /\ all_seeds = <<>>
    /\ episode_data = [is_none |-> TRUE]
    /\ threads = <<>> /\ thread_args = <<>> /\ files = {}
    /\ n_episodes_rendered = 0 /\ video_paths = <<>> /\ join_ix = 0
    /\ info = [returned |-> FALSE]
    /\ e_batches = <<>>

\* line 319 with start_seed = None: None + int raises TypeError before rollout
EvalBatchRaises ==
    /\ e_pc = "running"
    /\ batch_ix < n_batches(n_episodes, num_envs)
    /\ start_seed.is_none
    /\ e_pc' = "raised"
    /\ e_err' = "TypeError"
    /\ UNCHANGED <<n_episodes, num_envs, max_episodes_rendered, return_episode_data,
                   start_seed, batch_ix, sum_rewards, max_rewards, e_all_successes,
                   all_seeds, episode_data, threads, thread_args, files,
                   n_episodes_rendered, video_paths, join_ix, info, e_batches>>

\* one iteration of the batch loop, lines 313-412, for a given start_seed
EvalBatch ==
    /\ e_pc = "running"
    /\ batch_ix < n_batches(n_episodes, num_envs)
    /\ ~start_seed.is_none
    /\ \E d \in [1..num_envs -> 0..(MaxEvalSteps - 1)] :
        LET seeds == batch_seeds(start_seed.value, batch_ix, num_envs)
            rollout_data == rollout_outcome(d)
            \* render_frame runs once after reset and once after every step
            n_steps == Len(rollout_data.done[1])
            width == IF max_episodes_rendered > 0
                     THEN render_frame(n_episodes_rendered, max_episodes_rendered, num_envs)
                     ELSE 0
            ep_frames == IF width > 0 THEN [f \in 1..(n_steps + 1) |-> f - 1] ELSE <<>>
            \* lines 331-344
            indices == [i \in 1..num_envs |-> done_index(rollout_data.done[i])]
            msk == [i \in 1..num_envs |-> mask_row(indices[i], n_steps)]
            batch_sum_rewards == [i \in 1..num_envs |->
                                     reduce_sum(rollout_data.reward[i], msk[i])]
            batch_max_rewards == [i \in 1..num_envs |->
                                     reduce_max(rollout_data.reward[i], msk[i])]
            batch_successes == [i \in 1..num_envs |->
                                   reduce_any(rollout_data.success[i], msk[i])]
            \* lines 346-357
            sei == start_episode_index(batch_ix, num_envs)
            sdi == start_data_index(episode_data)
            this == compile_episode_data(indices, sei, sdi)
            this_episode_data == [is_none |-> FALSE, hf |-> this.hf, edi |-> this.edi]
            asserted == return_episode_data /\ ~episode_data.is_none
            failed == asserted /\ ~assertions_hold(episode_data, this_episode_data)
            \* lines 388-408: one thread per captured row until the limit is reached
            n_now == IF max_episodes_rendered > 0 /\ Len(ep_frames) > 0
                     THEN min(width, max(max_episodes_rendered - n_episodes_rendered, 0))
                     ELSE 0
            paths == [k \in 1..n_now |-> video_path(n_episodes_rendered + k - 1)]
            call == [seeds |-> seeds,
                     compiled |-> return_episode_data,
                     start_episode_index |-> sei,
                     start_data_index |-> sdi,
                     rendered_before |-> n_episodes_rendered,
                     captured |-> Len(ep_frames)]
        IN  /\ sum_rewards' = sum_rewards \o batch_sum_rewards
            /\ max_rewards' = max_rewards \o batch_max_rewards
            /\ e_all_successes' = e_all_successes \o batch_successes
            /\ all_seeds' = all_seeds \o seeds
            /\ e_batches' = Append(e_batches, call)
            /\ IF failed
               THEN /\ e_pc' = "raised"
                    /\ e_err' = "AssertionError"
                    /\ UNCHANGED <<batch_ix, episode_data, threads, thread_args,
                                   n_episodes_rendered, video_paths>>
               ELSE /\ episode_data' =
                           IF ~return_episode_data THEN episode_data
                           ELSE IF episode_data.is_none THEN this_episode_data
                           ELSE concatenate(episode_data, this_episode_data)
                    /\ threads' = threads \o [k \in 1..n_now |-> "running"]
                    /\ thread_args' = thread_args \o
                           [k \in 1..n_now |->
                               [video_path |-> paths[k],
                                done_index |-> indices[k],
                                frames |-> SubSeq(ep_frames, 1,
                                                  min(indices[k] + 1, Len(ep_frames)))]]
                    /\ video_paths' = video_paths \o paths
                    /\ n_episodes_rendered' = n_episodes_rendered + n_now
                    /\ batch_ix' = batch_ix + 1
                    /\ UNCHANGED <<e_pc, e_err>>
    /\ UNCHANGED <<n_episodes, num_envs, max_episodes_rendered, return_episode_data,
                   start_seed, files, join_ix, info>>

\* write_video running in its thread (started at line 406) comes to its end
ThreadFinish ==
    /\ \E t \in 1..Len(threads) :
        /\ threads[t] = "running"
        /\ threads' = [threads EXCEPT ![t] = "done"]
        /\ files' = files \cup {thread_args[t].video_path}
    /\ UNCHANGED <<n_episodes, num_envs, max_episodes_rendered, return_episode_data,
                   start_seed, e_pc, e_err, batch_ix, sum_rewards, max_rewards,
                   e_all_successes, all_seeds, episode_data, thread_args,
                   n_episodes_rendered, video_paths, join_ix, info, e_batches>>

\* a mutated join: the main thread moves on without waiting for the thread
EvalJoin_no_wait ==
    /\ e_pc = "running"
    /\ batch_ix >= n_batches(n_episodes, num_envs)
    /\ join_ix < Len(threads)
    /\ join_ix' = join_ix + 1
    /\ UNCHANGED <<n_episodes, num_envs, max_episodes_rendered, return_episode_data,
                   start_seed, e_pc, e_err, batch_ix, sum_rewards, max_rewards,
                   e_all_successes, all_seeds, episode_data, threads, thread_args, files,
                   n_episodes_rendered, video_paths, info, e_batches>>

\* lines 415-416: thread.join() returns once that thread has finished
EvalJoin ==
    /\ e_pc = "running"
    /\ batch_ix >= n_batches(n_episodes, num_envs)
    /\ join_ix < Len(threads)
    /\ threads[join_ix + 1] = "done"
    /\ join_ix' = join_ix + 1
    /\ UNCHANGED <<n_episodes, num_envs, max_episodes_rendered, return_episode_data,
                   start_seed, e_pc, e_err, batch_ix, sum_rewards, max_rewards,
                   e_all_successes, all_seeds, episode_data, threads, thread_args, files,
                   n_episodes_rendered, video_paths, info, e_batches>>

\* lines 419-453: the info dictionary (the timing entries are not represented;
\* the averages are kept as <<sum, count>>)
EvalReturn ==
    /\ e_pc = "running"
    /\ batch_ix >= n_batches(n_episodes, num_envs)
    /\ join_ix >= Len(threads)
    /\ LET kept == min(n_episodes, Len(sum_rewards))
           per_episode == [i \in 1..kept |->
                              [episode_ix |-> i - 1,
                               sum_reward |-> sum_rewards[i],
                               max_reward |-> max_rewards[i],
                               success |-> e_all_successes[i],
                               seed |-> all_seeds[i]]]
           aggregated ==
               [avg_sum_reward |-> <<SumSeq(SubSeq(sum_rewards, 1, kept)), kept>>,
                avg_max_reward |-> <<SumSeq(SubSeq(max_rewards, 1, kept)), kept>>,
                pc_success |->
                    <<100 * SumSeq([i \in 1..kept |-> to_int(e_all_successes[i])]), kept>>]
       IN  info' = [returned |-> TRUE,
                    per_episode |-> per_episode,
                    aggregated |-> aggregated,
                    has_episodes |-> return_episode_data,
                    episodes |-> episode_data,
                    has_video_paths |-> max_episodes_rendered > 0,
                    video_paths |-> video_paths]
    /\ e_pc' = "returned"
    /\ UNCHANGED <<n_episodes, num_envs, max_episodes_rendered, return_episode_data,
                   start_seed, e_err, batch_ix, sum_rewards, max_rewards,
                   e_all_successes, all_seeds, episode_data, threads, thread_args, files,
                   n_episodes_rendered, video_paths, join_ix, e_batches>>

\* --------------------------------------- eval_policy: one element's metrics
MetricIdle ==
    /\ m_done = <<>> /\ m_reward = <<>> /\ m_success = <<>>
    /\ m_out = [computed |-> FALSE]

\* one element's rows of the tensors rollout returns: done is cumulative and true
\* at the last step at the latest (the other elements may take longer); rewards
\* and successes are recorded at every step, those after the first done included
MetricInit ==
    /\ \E n \in 1..MaxMetricSteps :
        /\ m_done \in {[s \in 1..n |-> (s - 1) >= d] : d \in 0..(n - 1)}
        /\ m_reward \in [1..n -> (0 - MaxReward)..MaxReward]
        /\ m_success \in [1..n -> BOOLEAN]
    /\ m_out = [computed |-> FALSE]

\* lines 329-343 for one batch element
ComputeMetrics ==
    /\ ~m_out.computed
    /\ LET n_steps == Len(m_done)
           di == done_index(m_done)
           msk == mask_row(di, n_steps)
       IN  m_out' = [computed |-> TRUE,
                     done_index |-> di,
                     mask |-> msk,
                     sum_reward |-> reduce_sum(m_reward, msk),
                     max_reward |-> reduce_max(m_reward, msk),
                     success |-> reduce_any(m_success, msk)]
    /\ UNCHANGED <<m_done, m_reward, m_success>>

\* ------------------------------------------------------------ specifications
MergeIdle ==
    /\ MergeInit
    /\ offline_len = 0

InitMerge == MergeInit /\ WeightIdle /\ ResolverIdle /\ RolloutIdle /\ CompileIdle /\ EvalIdle /\ MetricIdle
NextMerge ==
    \/ (MergeRejected /\ UNCHANGED <<weightVars, resolverVars, rolloutVars, compileVars, evalVars, metricVars>>)
    \/ (MergeWeightFails /\ UNCHANGED <<weightVars, resolverVars, rolloutVars, compileVars, evalVars, metricVars>>)
    \/ (MergeOk /\ UNCHANGED <<weightVars, resolverVars, rolloutVars, compileVars, evalVars, metricVars>>)
SpecMerge == InitMerge /\ [][NextMerge]_vars

InitWeight == MergeIdle /\ WeightInit /\ ResolverIdle /\ RolloutIdle /\ CompileIdle /\ EvalIdle /\ MetricIdle
NextWeight == CalcWeight /\ UNCHANGED <<mergeVars, resolverVars, rolloutVars, compileVars, evalVars, metricVars>>
SpecWeight == InitWeight /\ [][NextWeight]_vars

InitResolver == MergeIdle /\ WeightIdle /\ ResolverInit /\ RolloutIdle /\ CompileIdle /\ EvalIdle /\ MetricIdle
NextResolver == Resolve /\ UNCHANGED <<mergeVars, weightVars, rolloutVars, compileVars, evalVars, metricVars>>
SpecResolver == InitResolver /\ [][NextResolver]_vars

InitRollout == MergeIdle /\ WeightIdle /\ ResolverIdle /\ RolloutInit /\ CompileIdle /\ EvalIdle /\ MetricIdle
NextRollout ==
    \/ (RolloutReset /\ UNCHANGED <<mergeVars, weightVars, resolverVars, compileVars, evalVars, metricVars>>)
    \/ (RolloutStep /\ UNCHANGED <<mergeVars, weightVars, resolverVars, compileVars, evalVars, metricVars>>)
    \/ (RolloutReturn /\ UNCHANGED <<mergeVars, weightVars, resolverVars, compileVars, evalVars, metricVars>>)
SpecRollout == InitRollout /\ [][NextRollout]_vars
\* rollout runs on one thread: whenever its next statement can run, it does
SpecRolloutLive == SpecRollout /\ WF_vars(NextRollout)

InitCompile == MergeIdle /\ WeightIdle /\ ResolverIdle /\ RolloutIdle /\ CompileInit /\ EvalIdle /\ MetricIdle
NextCompile == Compile /\ UNCHANGED <<mergeVars, weightVars, resolverVars, rolloutVars, evalVars, metricVars>>
SpecCompile == InitCompile /\ [][NextCompile]_vars

InitEval ==
    MergeIdle /\ WeightIdle /\ ResolverIdle /\ RolloutIdle /\ CompileIdle /\ EvalInit
    /\ MetricIdle
NextEval ==
    \/ (EvalBatch /\ UNCHANGED <<mergeVars, weightVars, resolverVars, rolloutVars, compileVars, metricVars>>)
    \/ (EvalBatchRaises /\ UNCHANGED <<mergeVars, weightVars, resolverVars, rolloutVars, compileVars, metricVars>>)
    \/ (ThreadFinish /\ UNCHANGED <<mergeVars, weightVars, resolverVars, rolloutVars, compileVars, metricVars>>)
    \/ (EvalJoin /\ UNCHANGED <<mergeVars, weightVars, resolverVars, rolloutVars, compileVars, metricVars>>)
    \/ (EvalReturn /\ UNCHANGED <<mergeVars, weightVars, resolverVars, rolloutVars, compileVars, metricVars>>)
SpecEval == InitEval /\ [][NextEval]_vars

InitMetric ==
    MergeIdle /\ WeightIdle /\ ResolverIdle /\ RolloutIdle /\ CompileIdle /\ EvalIdle
    /\ MetricInit
NextMetric ==
    ComputeMetrics
    /\ UNCHANGED <<mergeVars, weightVars, resolverVars, rolloutVars, compileVars, evalVars>>
SpecMetric == InitMetric /\ [][NextMetric]_vars

\* ==================================================================== claims
\* the structures add_episodes_inplace writes for its caller
mergedState == <<online_hf, online_edi, cumulative_sizes, sampler_weights,
                 sampler_num_samples>>
\* every call made so far returned normally, and there was one
AllCallsSucceeded == n_ok > 0 /\ n_calls = n_ok
\* this step is one call of add_episodes_inplace
IsCall == n_calls' = n_calls + 1

\* C1: after any sequence of successful merges of zero-based batches the online
\* dataset's index column is exactly 0..N-1 and its episode_index column starts
\* at 0, never decreases and covers 0..E-1, E the number of episodes merged.
\* The code shifts by the incoming batch's own last values, so this fails.
C1_IndicesContiguous ==
    AllCallsSucceeded =>
        /\ \A k \in 1..Len(online_hf) : online_hf[k].index = k - 1
        /\ online_hf[1].episode_index = 0
        /\ \A k \in 1..(Len(online_hf) - 1) :
               online_hf[k + 1].episode_index >= online_hf[k].episode_index
        /\ {online_hf[k].episode_index : k \in 1..Len(online_hf)} = 0..(episodes_merged - 1)

\* C2: after any sequence of successful merges the online dataset's
\* episode_data_index has one (from, to) entry per merged episode and the ranges
\* partition [0, len(online_dataset)).  The code never extends the stored table,
\* so this fails.
C2_TablePartitions ==
    AllCallsSucceeded =>
        /\ Len(online_edi.from) = episodes_merged
        /\ Len(online_edi.to) = episodes_merged
        /\ online_edi.from[1] = 0
        /\ \A i \in 1..(episodes_merged - 1) : online_edi.to[i] = online_edi.from[i + 1]
        /\ online_edi.to[episodes_merged] = Len(online_hf)

\* C3: a call on a non-empty online dataset that returns normally appends the
\* batch with episode_index shifted by (last stored episode_index + 1) and index,
\* from and to shifted by (last stored index + 1).  The code takes both offsets from
\* the incoming batch, so this fails.
C3_ShiftByStored ==
    [][(IsCall /\ err' = "ok" /\ Len(online_hf) > 0) =>
           /\ online_hf' = online_hf \o shift_indices(hf_dataset',
                                           last_episode_idx(online_hf) + 1,
                                           last_index(online_hf) + 1)
           /\ episode_data_index' = shift_table(edi_arg', last_index(online_hf) + 1)]_vars

\* C4: after every call that returns normally, sampler.weights has length
\* len(concat_dataset), is len_offline ones followed by len(online_dataset) copies
\* of the computed online weight, sampler.num_samples is len(concat_dataset) and
\* the cumulative sizes are those of the offline and the grown online dataset.
C4_SamplerConsistent ==
    err = "ok" =>
        LET len_online == Len(online_hf)
            len_concat == concat_len(cumulative_sizes)
            w == calculate_online_sample_weight(offline_len, len_online, pc_online_samples)
        IN  /\ cumulative_sizes = <<offline_len, offline_len + len_online>>
            /\ Len(sampler_weights) = len_concat
            /\ \A k \in 1..offline_len : sampler_weights[k] = Rat(1)
            /\ w.error = "ok"
            /\ \A k \in (offline_len + 1)..len_concat : sampler_weights[k] = w.value
            /\ sampler_num_samples = len_concat

\* C4 witness: a second successful merge next to a non-empty offline dataset,
\* with a non-zero online weight
C4_Witness ==
    /\ err = "ok"
    /\ n_ok = 2
    /\ offline_len > 0
    /\ pc_online_samples = <<1, PcDen>>
    /\ Len(sampler_weights) > offline_len + 1

\* the batch breaks one of the four pre-conditions of lines 68-71 (a table entry
\* that does not exist breaks none)
BreaksPrecondition(hf, edi) ==
    /\ Len(hf) > 0
    /\ \/ first_episode_idx(hf) # 0
       \/ first_index(hf) # 0
       \/ /\ first_episode_idx(hf) + 1 \in 1..Len(edi.from)
          /\ edi.from[first_episode_idx(hf) + 1] # first_index(hf)
       \/ /\ last_episode_idx(hf) + 1 \in 1..Len(edi.to)
          /\ edi.to[last_episode_idx(hf) + 1] # last_index(hf) + 1

\* C6: a call whose batch breaks one of the four pre-conditions raises an
\* AssertionError and leaves the online dataset, the cumulative sizes and the
\* sampler as they were.
C6_RejectedBeforeWrite ==
    [][(IsCall /\ BreaksPrecondition(hf_dataset', edi_arg')) =>
           /\ err' = "AssertionError"
           /\ mergedState' = mergedState
           /\ episode_data_index' = edi_arg']_vars

\* C6 witness: a batch whose only fault is its last "to" was rejected by a merger
\* that already holds episodes
C6_Witness ==
    /\ err = "AssertionError"
    /\ Len(online_hf) > 0
    /\ first_episode_idx(hf_dataset) = 0
    /\ first_index(hf_dataset) = 0
    /\ edi_arg.from[1] = 0
    /\ edi_arg.to[last_episode_idx(hf_dataset) + 1] # last_index(hf_dataset) + 1

\* C7: a call with an empty batch leaves the online dataset, the cumulative sizes
\* and the sampler's weights and num_samples as they were (the call raises
\* IndexError at line 59, before anything is written).
C7_EmptyBatchNoChange ==
    [][(IsCall /\ hf_dataset' = <<>>) => mergedState' = mergedState]_vars

\* C7 witness: an empty batch was handed to a merger that already holds episodes
C7_Witness ==
    /\ n_calls > 0
    /\ hf_dataset = <<>>
    /\ Len(edi_arg.from) > 0
    /\ Len(online_hf) > 0
    /\ err = "IndexError"

\* the call of calculate_online_sample_weight has been made
WeightCalled == w_result.error # "none"
\* 0 <= pc_on and pc_on <= 1, the function's own assertion
PcInRange == RatLe(Rat(0), w_pc_on) /\ RatLe(w_pc_on, Rat(1))

\* C5: for n_off > 0, n_on > 0 and 0 <= pc_on < 1 the returned weight w satisfies
\* n_on*w / (n_off + n_on*w) = pc_on and w*n_on*(1 - pc_on) = n_off*pc_on; in
\* particular (100, 50, 1/2) gives 2 and pc_on = 0 gives 0.
C5_WeightSolvesEquation ==
    (WeightCalled /\ w_n_off > 0 /\ w_n_on > 0 /\ PcInRange /\ ~RatEq(w_pc_on, Rat(1))) =>
        /\ w_result.error = "ok"
        /\ LET w == w_result.value
               online == RatMul(Rat(w_n_on), w)
               total == RatAdd(Rat(w_n_off), online)
           IN  /\ w[2] # 0
               /\ ~RatIsZero(total)
               /\ RatEq(RatDiv(online, total), w_pc_on)
               /\ RatEq(RatMul(w, RatMul(Rat(w_n_on), RatSub(Rat(1), w_pc_on))),
                        RatMul(Rat(w_n_off), w_pc_on))
               /\ (w_n_off = 100 /\ w_n_on = 50 /\ RatEq(w_pc_on, <<1, 2>>)) => RatEq(w, Rat(2))
               /\ RatEq(w_pc_on, Rat(0)) => RatEq(w, Rat(0))

\* C5 witness: the worked example (100, 50, 1/2) has returned 2
C5_Witness ==
    /\ w_n_off = 100
    /\ w_n_on = 50
    /\ w_pc_on = <<1, 2>>
    /\ w_result.error = "ok"
    /\ RatEq(w_result.value, Rat(2))

\* C8 as stated: division by zero when n_on = 0, and when pc_on = 1 with
\* n_off # 0; with pc_on = 1, n_off = 0 and n_on > 0 a weight is returned.
\* The last part fails: 0.0 / 0.0 raises ZeroDivisionError too.
C8_Original ==
    (WeightCalled /\ PcInRange) =>
        /\ (w_n_on = 0 => w_result.error = "ZeroDivisionError")
        /\ (RatEq(w_pc_on, Rat(1)) /\ w_n_off # 0 => w_result.error = "ZeroDivisionError")
        /\ (RatEq(w_pc_on, Rat(1)) /\ w_n_off = 0 /\ w_n_on > 0 => w_result.error = "ok")

\* C8 amended: division by zero when n_on = 0, and when pc_on = 1 whatever n_off
\* is; in particular pc_on = 1, n_off = 0, n_on > 0 raises and returns no weight.
C8_DivisionByZero ==
    (WeightCalled /\ PcInRange) =>
        /\ (w_n_on = 0 => w_result.error = "ZeroDivisionError")
        /\ (RatEq(w_pc_on, Rat(1)) /\ w_n_off # 0 => w_result.error = "ZeroDivisionError")
        /\ (RatEq(w_pc_on, Rat(1)) /\ w_n_off = 0 /\ w_n_on > 0 =>
                w_result.error = "ZeroDivisionError")

\* C8 witness: pc_on = 1 with no offline sample and some online samples has raised
C8_Witness ==
    /\ RatEq(w_pc_on, Rat(1))
    /\ w_n_off = 0
    /\ w_n_on > 0
    /\ w_result.error = "ZeroDivisionError"

\* the row is cumulative (once true, true at every later step) and has a true
CumulativeWithTrue(row) ==
    /\ \E s \in 1..Len(row) : row[s]
    /\ \A s \in 1..(Len(row) - 1) : row[s] => row[s + 1]
\* number of true entries of a mask row
MaskCount(row) == Cardinality({s \in 1..Len(row) : row[s] = 1})
Min(a, b) == IF a <= b THEN a ELSE b

ReportedBy(i, s) == \E t \in 1..s : env_reports[t][i]
\* every environment of the batch has reported terminated or truncated
EveryEnvReported ==
    /\ r_pc \in {"loop", "returned"}
    /\ \A i \in 1..r_num_envs : ReportedBy(i, Len(env_reports))
\* every element's flag is true at step s (one-based) of the returned done tensor
AllDoneAt(s) == \A i \in 1..r_num_envs : ret.done[i][s]

\* C11: once every environment has reported terminated or truncated the stepping
\* loop exits, and it exits right after the first step at which every element's
\* cumulative flag is true: in the returned done tensor the last step is true for
\* all elements and no earlier step is.
C11_ExitsAtFirstAllDone ==
    /\ [](ret.returned =>
            LET n_steps == Len(ret.done[1])
            IN  /\ n_steps = r_step
                /\ AllDoneAt(n_steps)
                /\ \A s \in 1..(n_steps - 1) : ~AllDoneAt(s))
    /\ (EveryEnvReported ~> ret.returned)

\* C11 witness: a rollout of two or more environments that finished at different
\* steps has returned
C11_Witness ==
    /\ ret.returned
    /\ r_num_envs > 1
    /\ r_step > 1
    /\ \E i \in 1..r_num_envs : ret.done[i][1]

\* C19: in the returned done tensor a flag that is true at a step is true at every
\* later step, and the flag of element i at step s is true exactly when
\* environment i reported terminated or truncated at a step up to s.
C19_DoneIsCumulative ==
    ret.returned =>
        \A i \in 1..r_num_envs :
            LET n_steps == Len(ret.done[i])
            IN  /\ n_steps = Len(env_reports)
                /\ \A s \in 1..n_steps : ret.done[i][s] <=> ReportedBy(i, s)
                /\ \A s \in 1..(n_steps - 1) : ret.done[i][s] => ret.done[i][s + 1]

\* C19 witness: an element's flag stayed true at a later step at which its
\* environment reported neither terminated nor truncated
C19_Witness ==
    /\ ret.returned
    /\ \E i \in 1..r_num_envs : \E s \in 2..Len(env_reports) :
           ret.done[i][s - 1] /\ ret.done[i][s] /\ ~env_reports[s][i]

\* every row of a stacked tensor has n entries
RowsOfLength(tensor, n) == \A i \in 1..Len(tensor) : Len(tensor[i]) = n

\* C20: a rollout over one or more environments makes at least one step; action,
\* reward, success and done have the same number of steps T >= 1 and observation,
\* when requested, has T + 1 steps: those seen before each step, then the one
\* produced by the last step.
C20_AtLeastOneStep ==
    ret.returned =>
        LET T == Len(ret.done[1])
        IN  /\ r_step >= 1
            /\ T = r_step
            /\ Len(ret.action) = r_num_envs /\ RowsOfLength(ret.action, T)
            /\ Len(ret.reward) = r_num_envs /\ RowsOfLength(ret.reward, T)
            /\ Len(ret.success) = r_num_envs /\ RowsOfLength(ret.success, T)
            /\ Len(ret.done) = r_num_envs /\ RowsOfLength(ret.done, T)
            /\ r_return_observations =>
                   /\ Len(ret.observation) = r_num_envs
                   /\ \A i \in 1..r_num_envs :
                          ret.observation[i] = [s \in 1..(T + 1) |-> s - 1]

\* C20 witness: a rollout that captured observations returned after several steps
C20_Witness ==
    /\ ret.returned
    /\ r_return_observations
    /\ r_step > 1
    /\ Len(ret.observation[1]) = r_step + 1

\* the rows of the compiled dataset that carry episode number e
RowsOfEpisode(hf, e) == {f \in 1..Len(hf) : hf[f].episode_index = e}

\* C12: for every batch element i the compiler emits exactly done_index[i] + 1
\* rows, next to each other, with episode_index = start_episode_index + i and
\* frame_index 0..length-1; from[0] = start_data_index, to[i] = from[i] + length_i,
\* to[i] = from[i+1]; index runs from start_data_index without a gap.  Done at
\* steps 2 and 4 from start 0 gives lengths 3 and 5 and entries (0,3) and (3,8).
C12_CompiledEpisodes ==
    c_out.compiled =>
        LET n == Len(c_done_indices)
            hf == c_out.hf
            edi == c_out.edi
        IN  /\ Len(edi.from) = n /\ Len(edi.to) = n
            /\ edi.from[1] = c_start_data_index
            /\ \A i \in 1..n :
                   LET rows == RowsOfEpisode(hf, c_start_episode_index + i - 1)
                       first == edi.from[i] - c_start_data_index + 1
                   IN  /\ Cardinality(rows) = c_done_indices[i] + 1
                       /\ edi.to[i] = edi.from[i] + c_done_indices[i] + 1
                       /\ rows = first..(first + c_done_indices[i])
                       /\ \A f \in rows : hf[f].frame_index = f - first
            /\ \A i \in 1..(n - 1) : edi.to[i] = edi.from[i + 1]
            /\ \A f \in 1..Len(hf) :
                   /\ hf[f].index = c_start_data_index + f - 1
                   /\ hf[f].episode_index \in
                          c_start_episode_index..(c_start_episode_index + n - 1)
            /\ Len(hf) = edi.to[n] - c_start_data_index
            /\ (c_done_indices = <<2, 4>> /\ c_start_data_index = 0) =>
                   /\ edi.from = <<0, 3>> /\ edi.to = <<3, 8>>
                   /\ Len(hf) = 8

\* C12 witness: the worked example, done at steps 2 and 4 from start 0, compiled
\* to the entries (0,3) and (3,8)
C12_Witness ==
    /\ c_out.compiled
    /\ c_done_indices = <<2, 4>>
    /\ c_start_episode_index = 0
    /\ c_start_data_index = 0
    /\ c_out.edi = [from |-> <<0, 3>>, to |-> <<3, 8>>]

\* the least number of batches of width b that hold n episodes
CeilDiv(n, b) == CHOOSE m \in 0..n : m * b >= n /\ (m - 1) * b < n

\* C13: with a start_seed, eval_policy runs exactly ceil(n_episodes / b) rollouts,
\* batch k seeded with start_seed + k*b .. start_seed + (k+1)*b - 1, and returns
\* exactly n_episodes per-episode entries in batch order then element order, with
\* episode_ix 0..n_episodes-1 and seeds start_seed .. start_seed + n_episodes - 1.
C13_BatchesSeedsEntries ==
    ~start_seed.is_none =>
        /\ Len(e_batches) <= CeilDiv(n_episodes, num_envs)
        /\ \A k \in 1..Len(e_batches) :
               e_batches[k].seeds =
                   [i \in 1..num_envs |-> start_seed.value + (k - 1) * num_envs + i - 1]
        /\ e_pc = "returned" =>
               /\ Len(e_batches) = CeilDiv(n_episodes, num_envs)
               /\ Len(info.per_episode) = n_episodes
               /\ \A i \in 1..Len(info.per_episode) :
                      /\ info.per_episode[i].episode_ix = i - 1
                      /\ info.per_episode[i].seed = start_seed.value + i - 1
                      /\ info.per_episode[i].seed =
                             e_batches[((i - 1) \div num_envs) + 1].seeds[((i - 1) % num_envs) + 1]

\* C13 witness: three episodes asked of two environments from seed 1: two
\* batches ran, the fourth episode was dropped and three entries came back
C13_Witness ==
    /\ e_pc = "returned"
    /\ n_episodes = 3 /\ num_envs = 2
    /\ start_seed = [is_none |-> FALSE, value |-> 1]
    /\ Len(e_batches) = 2
    /\ Len(all_seeds) = 4
    /\ Len(info.per_episode) = 3

\* C14: called without a start_seed, eval_policy completes normally and every
\* rollout is invoked with no seeds.
C14_NoSeedCompletes ==
    start_seed.is_none =>
        /\ e_pc # "raised"
        /\ e_err = "none"

\* episodes and frames in the accumulated episode data
EpisodesIn(data) == IF data.is_none THEN 0 ELSE Len(data.edi.from)
FramesIn(data) == IF data.is_none THEN 0 ELSE Len(data.hf)

\* the accumulated data starts at 0 and has no gap
Contiguous(data) ==
    /\ data.hf[1].episode_index = 0
    /\ data.hf[1].index = 0
    /\ \A f \in 1..Len(data.hf) : data.hf[f].index = f - 1
    /\ \A f \in 1..(Len(data.hf) - 1) :
           data.hf[f + 1].episode_index - data.hf[f].episode_index \in {0, 1}
    /\ data.edi.from[1] = 0
    /\ \A i \in 1..(Len(data.edi.to) - 1) : data.edi.to[i] = data.edi.from[i + 1]
    /\ data.edi.to[Len(data.edi.to)] = Len(data.hf)

\* C15: with return_episode_data, every batch calls the compiler with
\* start_episode_index = episodes accumulated so far and start_data_index = frames
\* accumulated so far; the three assertions never fail; the accumulated data has
\* episode_index and index from 0 without a gap and to[i] = from[i+1].
C15_CompilerStartsAtAccumulated ==
    /\ [](e_err # "AssertionError")
    /\ []((return_episode_data /\ ~episode_data.is_none) => Contiguous(episode_data))
    /\ [][(return_episode_data /\ e_batches' # e_batches) =>
              LET call == e_batches'[Len(e_batches')]
              IN  /\ call.compiled
                  /\ call.start_episode_index = EpisodesIn(episode_data)
                  /\ call.start_data_index = FramesIn(episode_data)]_vars

\* C15 witness: two batches of two environments were compiled and
\* concatenated, the assertions having been evaluated between them
C15_Witness ==
    /\ e_pc = "returned"
    /\ return_episode_data
    /\ num_envs = 2
    /\ batch_ix = 2
    /\ EpisodesIn(episode_data) = 4
    /\ e_batches[2].start_episode_index = 2
    /\ e_batches[2].start_data_index > 2

\* C16: the episode data returned by eval_policy holds no episode past
\* n_episodes: no episode_index >= n_episodes appears in it.
C16_NoExcessEpisodes ==
    (e_pc = "returned" /\ return_episode_data) =>
        \A f \in 1..Len(info.episodes.hf) : info.episodes.hf[f].episode_index < n_episodes

\* C17: when eval_policy returns, every video thread it started has run to its
\* end: with k threads started, the k files are written at their paths.
C17_AllWritesFinishedAtReturn ==
    e_pc = "returned" =>
        /\ join_ix = Len(threads)
        /\ \A t \in 1..Len(threads) :
               /\ threads[t] = "done"
               /\ thread_args[t].video_path \in files
        /\ Cardinality(files) = Len(threads)

\* C17 witness: eval_policy returned after starting two video threads
C17_Witness ==
    /\ e_pc = "returned"
    /\ Len(threads) = 2
    /\ Cardinality(files) = 2

\* C18: never more than max_episodes_rendered video threads; no frame is
\* captured in a rollout that starts with the limit reached; thread k (from 0)
\* writes eval_episode_k.mp4 and no other thread does; video_paths lists the
\* paths of the started threads in order.
C18_RenderLimitAndPaths ==
    /\ n_episodes_rendered <= max_episodes_rendered
    /\ Len(threads) = n_episodes_rendered
    /\ Len(thread_args) = Len(threads)
    /\ \A k \in 1..Len(thread_args) :
           /\ thread_args[k].video_path = <<"eval_episode_", k - 1, ".mp4">>
           /\ \A j \in 1..Len(thread_args) :
                  j # k => thread_args[j].video_path # thread_args[k].video_path
    /\ video_paths = [k \in 1..Len(thread_args) |-> thread_args[k].video_path]
    /\ \A b \in 1..Len(e_batches) :
           e_batches[b].rendered_before >= max_episodes_rendered =>
               e_batches[b].captured = 0

\* C18 witness: two videos were asked for, two threads were started and a later
\* rollout ran with the limit reached, capturing nothing
C18_Witness ==
    /\ max_episodes_rendered = 2
    /\ Len(threads) = 2
    /\ \E b \in 1..Len(e_batches) :
           /\ e_batches[b].rendered_before = 2
           /\ e_batches[b].captured = 0

\* the (one-based) step at which a done row first becomes true
FirstDoneStep(row) == CHOOSE s \in 1..Len(row) : row[s] /\ \A j \in 1..(s - 1) : ~row[j]

\* the largest element of a non-empty set of integers
SetMax(S) == CHOOSE v \in S : \A w \in S : w <= v

\* C21: an element's sum_reward, max_reward and success are computed only from
\* the steps up to and including its first done step; what is recorded at a
\* later step is not included.
C21_OnlyUpToFirstDone ==
    m_out.computed =>
        LET last == FirstDoneStep(m_done)
        IN  /\ m_out.sum_reward = SumSeq(SubSeq(m_reward, 1, last))
            /\ m_out.max_reward = SetMax({m_reward[s] : s \in 1..last})
            /\ m_out.success = (\E s \in 1..last : m_success[s])

\* C22: an element's max_reward is the maximum of its rewards over exactly the
\* steps its mask marks valid, also when all of these rewards are negative.
C22_MaxOverValidSteps ==
    m_out.computed =>
        m_out.max_reward = SetMax({m_reward[s] : s \in {t \in 1..Len(m_reward) : m_out.mask[t] = 1}})

\* C23: the frames handed to a video thread are done_index + 1 in number and
\* include the frame rendered right after the step at which the episode first
\* became done: frames are numbered by capture, 0 after the reset and s + 1
\* after step s, so that frame is number done_index + 1.
C23_FramesIncludeLastObservation ==
    \A t \in 1..Len(thread_args) :
        /\ Len(thread_args[t].frames) = thread_args[t].done_index + 1
        /\ \E f \in 1..Len(thread_args[t].frames) :
               thread_args[t].frames[f] = thread_args[t].done_index + 1

\* C24: whenever add_episodes_inplace raises, the failure of the weight
\* computation after the append included, the online dataset and the cumulative
\* sizes are what they were before the call, so the online dataset, the combined
\* length and the sampler still agree.
C24_ErrorLeavesStateUnchanged ==
    [][(IsCall /\ err' # "ok") =>
           /\ online_hf' = online_hf
           /\ cumulative_sizes' = cumulative_sizes
           /\ concat_len(cumulative_sizes') = offline_len + Len(online_hf')
           /\ Len(sampler_weights') = concat_len(cumulative_sizes')
           /\ sampler_num_samples' = concat_len(cumulative_sizes')]_vars

\* C25: the episode data eval_policy returns passes the four pre-conditions of
\* add_episodes_inplace: first episode_index 0, first index 0, from[0] = first
\* index, to[last episode_index] = last index + 1.
C25_ReturnedDataCanBeMerged ==
    (e_pc = "returned" /\ return_episode_data) =>
        LET hf == info.episodes.hf
            edi == info.episodes.edi
        IN  /\ ~info.episodes.is_none
            /\ sanity_check(hf, edi) = "ok"
            /\ hf[1].episode_index = 0
            /\ hf[1].index = 0
            /\ edi.from[1] = hf[1].index
            /\ edi.to[hf[Len(hf)].episode_index + 1] = hf[Len(hf)].index + 1

\* C25 witness: data compiled over three batches of one environment came back
\* and passes the merger's validation
C25_Witness ==
    /\ e_pc = "returned"
    /\ return_episode_data
    /\ num_envs = 1
    /\ batch_ix = 3
    /\ Len(info.episodes.edi.to) = 3
    /\ Len(info.episodes.hf) > 3
    /\ sanity_check(info.episodes.hf, info.episodes.edi) = "ok"

\* C26: every row of the done tensor rollout returns, the tensor eval_policy
\* hands to argmax at line 333, holds a true, so done_index points at a step
\* where the row is true and no row is all false.
C26_EveryRowHasADone ==
    ret.returned =>
        \A i \in 1..r_num_envs :
            /\ \E s \in 1..Len(ret.done[i]) : ret.done[i][s]
            /\ ret.done[i][done_index(ret.done[i]) + 1]

\* C26 witness: rollout returned two rows that became done at different steps,
\* each done index pointing at its row's first true
C26_Witness ==
    /\ ret.returned
    /\ r_num_envs = 2
    /\ done_index(ret.done[1]) = 0
    /\ done_index(ret.done[2]) = 2
    /\ ret.done[2][3]

====
